---- MODULE Spec2Model ----
(***************************************************************************)
(* wyzechunk.py: combine the one-minute fragments of a camera into one     *)
(* video per recording session.                                            *)
(*                                                                         *)
(* A path is a sequence of segments and a segment a sequence of one-       *)
(* character strings, so that the slices and int() conversions of          *)
(* combine() are computed character by character.  The output directory is *)
(* a map from file names to inodes with their content; ffmpeg is a child   *)
(* process that opens (creates or truncates) its output, writes it block   *)
(* by block and exits.  A run is one execution of combine(); a killed run  *)
(* takes its child with it and leaves the files as they are.               *)
(***************************************************************************)
EXTENDS Integers, Sequences, FiniteSets, TLC

\* ------------------------------------------------------------------ bounds
\* Largest number of fragment files in the recordings tree.
MaxFrags == 3
\* Number of runs of the program on the same tree and output directory.
MaxRuns == 2
\* Number of blocks ffmpeg writes to produce a complete output.
ToolBlocks == 2

\* The processes that may execute the program: one in a sequence of runs,
\* two when runs overlap.
Procs == {1, 2}

\* ------------------------------------------------------ characters, int()
Digits == <<"0", "1", "2", "3", "4", "5", "6", "7", "8", "9">>

IsDigit(c) == \E i \in 1..10 : Digits[i] = c

DigitVal(c) == (CHOOSE i \in 1..10 : Digits[i] = c) - 1

\* Python's s[a:b] for 0 <= a <= b (bounds are clamped to the length).
Slice(s, a, b) ==
    LET hi == IF b < Len(s) THEN b ELSE Len(s)
    IN  IF a >= hi THEN <<>> ELSE SubSeq(s, a + 1, hi)

RECURSIVE LStrip(_)
LStrip(s) == IF s /= <<>> /\ Head(s) = " " THEN LStrip(Tail(s)) ELSE s

RECURSIVE RStrip(_)
RStrip(s) ==
    IF s /= <<>> /\ s[Len(s)] = " " THEN RStrip(SubSeq(s, 1, Len(s) - 1)) ELSE s

\* The digits of an int() literal: single underscores between digits only.
RECURSIVE DigitsOK(_, _)
DigitsOK(s, prevDigit) ==
    IF s = <<>> THEN prevDigit
    ELSE IF IsDigit(Head(s)) THEN DigitsOK(Tail(s), TRUE)
    ELSE IF Head(s) = "_" THEN prevDigit /\ DigitsOK(Tail(s), FALSE)
    ELSE FALSE

RECURSIVE DigitsValue(_, _)
DigitsValue(s, acc) ==
    IF s = <<>> THEN acc
    ELSE IF Head(s) = "_" THEN DigitsValue(Tail(s), acc)
    ELSE DigitsValue(Tail(s), 10 * acc + DigitVal(Head(s)))

NoInt == [ok |-> FALSE, val |-> 0]

\* int(s) of a str: surrounding blanks stripped, an optional sign, decimal
\* digits; anything else raises ValueError (ok = FALSE).  The stripped string
\* is bound through a singleton set, so that it is computed once.
PyInt(s) ==
    CHOOSE result \in
        { LET sign == t /= <<>> /\ Head(t) \in {"+", "-"}
              body == IF sign THEN Tail(t) ELSE t
          IN  IF body = <<>> \/ ~DigitsOK(body, FALSE) THEN NoInt
              ELSE [ok  |-> TRUE,
                    val |-> IF sign /\ Head(t) = "-"
                               THEN 0 - DigitsValue(body, 0)
                               ELSE DigitsValue(body, 0)] :
          t \in {RStrip(LStrip(s))} } : TRUE

\* ---------------------------------------------------------------- datetime
IsLeap(y) == y % 4 = 0 /\ (y % 100 /= 0 \/ y % 400 = 0)

DaysInMonth(y, m) ==
    IF m = 2 THEN (IF IsLeap(y) THEN 29 ELSE 28)
    ELSE IF m \in {4, 6, 9, 11} THEN 30 ELSE 31

RECURSIVE DaysBeforeMonth(_, _)
DaysBeforeMonth(y, m) ==
    IF m = 1 THEN 0 ELSE DaysBeforeMonth(y, m - 1) + DaysInMonth(y, m - 1)

DaysBeforeYear(y) ==
    LET z == y - 1 IN z * 365 + (z \div 4) - (z \div 100) + (z \div 400)

\* datetime.toordinal()
Ordinal(t) == DaysBeforeYear(t.year) + DaysBeforeMonth(t.year, t.month) + t.day

\* datetime.datetime(year, month, day, hour, min) accepts these and raises
\* ValueError for the rest.
DatetimeOK(y, mo, d, h, mi) ==
    /\ y \in 1..9999
    /\ mo \in 1..12
    /\ d >= 1 /\ d <= DaysInMonth(y, mo)
    /\ h \in 0..23
    /\ mi \in 0..59

\* A gap taken per path component: minutes compared within the same date and
\* hour folder, anything else counted as a day apart.
Timedelta_PerComponent(t2, t1) ==
    IF /\ t2.year = t1.year /\ t2.month = t1.month /\ t2.day = t1.day
       /\ t2.hour = t1.hour
    THEN [days |-> 0, seconds |-> (t2.minute - t1.minute) * 60]
    ELSE [days |-> 1, seconds |-> 0]

\* t2 - t1 as a normalised timedelta (days, seconds).
Timedelta(t2, t1) ==
    LET d == Ordinal(t2) - Ordinal(t1)
        s == (t2.hour * 3600 + t2.minute * 60) - (t1.hour * 3600 + t1.minute * 60)
    IN  IF s < 0 THEN [days |-> d - 1, seconds |-> s + 86400]
        ELSE [days |-> d, seconds |-> s]

\* timedelta(minutes=1, seconds=30), in seconds
TIMEDELTA_THRESHOLD == 90

\* delta < TIMEDELTA_THRESHOLD (timedeltas compare as (days, seconds))
BelowThreshold(delta) ==
    \/ delta.days < 0
    \/ delta.days = 0 /\ delta.seconds < TIMEDELTA_THRESHOLD

\* datetime's ordering: t1 <= t2
TsLeq(t1, t2) ==
    LET a == <<t1.year, t1.month, t1.day, t1.hour, t1.minute>>
        b == <<t2.year, t2.month, t2.day, t2.hour, t2.minute>>
    IN  \/ a = b
        \/ \E i \in 1..5 : a[i] < b[i] /\ \A j \in 1..(i - 1) : a[j] = b[j]

\* A number as n decimal digits, zero padded.
RECURSIVE Pad(_, _)
Pad(v, n) == IF n = 0 THEN <<>> ELSE Append(Pad(v \div 10, n - 1), Digits[(v % 10) + 1])

\* A slip in the format: "%Y%m%d_%H", the minute forgotten.
Strftime_NoMinute(t) ==
    Pad(t.year, 4) \o Pad(t.month, 2) \o Pad(t.day, 2) \o <<"_">>
        \o Pad(t.hour, 2)

\* A slip in the format: "%Y%m%d_%H%m", the month where the minute belongs.
Strftime_MonthForMinute(t) ==
    Pad(t.year, 4) \o Pad(t.month, 2) \o Pad(t.day, 2) \o <<"_">>
        \o Pad(t.hour, 2) \o Pad(t.month, 2)

\* t.strftime("%Y%m%d_%H%M")
Strftime(t) ==
    Pad(t.year, 4) \o Pad(t.month, 2) \o Pad(t.day, 2) \o <<"_">>
        \o Pad(t.hour, 2) \o Pad(t.minute, 2)

\* ------------------------------------------------------------ fragment paths
Chars20240101 == <<"2", "0", "2", "4", "0", "1", "0", "1">>
Chars20231231 == <<"2", "0", "2", "3", "1", "2", "3", "1">>
Chars20240229 == <<"2", "0", "2", "4", "0", "2", "2", "9">>
Chars20240301 == <<"2", "0", "2", "4", "0", "3", "0", "1">>
DotMp4 == <<".", "m", "p", "4">>

\* <root>/<date folder>/<hour folder>/<stem>.mp4, as rglob("??.mp4") yields it
Frag(root, date, hour, stem) == <<<<root>>, date, hour, stem \o DotMp4>>

F1000 == Frag("a", Chars20240101, <<"1", "0">>, <<"0", "0">>)
F1001 == Frag("a", Chars20240101, <<"1", "0">>, <<"0", "1">>)
F1002 == Frag("a", Chars20240101, <<"1", "0">>, <<"0", "2">>)
F1005 == Frag("a", Chars20240101, <<"1", "0">>, <<"0", "5">>)
F1006 == Frag("a", Chars20240101, <<"1", "0">>, <<"0", "6">>)
\* a second file with the timestamp of F1001, under another root folder
F1001b == Frag("b", Chars20240101, <<"1", "0">>, <<"0", "1">>)
\* the last minute of 2023 and the first of 2024
F2359 == Frag("a", Chars20231231, <<"2", "3">>, <<"5", "9">>)
F0000 == Frag("a", Chars20240101, <<"0", "0">>, <<"0", "0">>)
\* a stem that is no number
FBadStem == Frag("a", Chars20240101, <<"1", "0">>, <<"x", "x">>)
\* a one-character hour folder and a signed minute
FLoose == Frag("a", Chars20240101, <<"7">>, <<"+", "5">>)

\* the last minute of an hour and the first of the next
F1059 == Frag("a", Chars20240101, <<"1", "0">>, <<"5", "9">>)
F1100 == Frag("a", Chars20240101, <<"1", "1">>, <<"0", "0">>)
\* the last minute of February 29th and the first of March
FFeb29 == Frag("a", Chars20240229, <<"2", "3">>, <<"5", "9">>)
FMar01 == Frag("a", Chars20240301, <<"0", "0">>, <<"0", "0">>)

\* The files next to an hour, a month and a year boundary.
RolloverFrags == {F2359, F0000, F1059, F1100, FFeb29, FMar01}

\* The fragment files a recordings tree is drawn from.
Universe == {F1000, F1001, F1002, F1001b, F2359, F0000, FBadStem, FLoose}

\* The trees of the concrete scenario: 10:00, 10:01, 10:02, 10:05, 10:06.
ScenarioFrags == {F1000, F1001, F1002, F1005, F1006}

\* The sequences without repetition over S of length at most n: the orders
\* in which rglob may yield the files of a tree.
RECURSIVE Orders(_, _)
Orders(S, n) ==
    IF n = 0 THEN {<<>>}
    ELSE LET shorter == Orders(S, n - 1)
         IN  shorter \cup
             {Append(q, f) : <<q, f>> \in
                 {x \in shorter \X S :
                     /\ Len(x[1]) = n - 1
                     /\ \A i \in 1..Len(x[1]) : x[1][i] /= x[2]}}

\* r.path.resolve(): the absolute path
Resolve(path) == <<<<"/">>>> \o path

NoTimestamp == [year |-> 0, month |-> 0, day |-> 0, hour |-> 0, minute |-> 0]

\* The loop body of combine() for one mp4_path: the timestamp, or the
\* exception int() or datetime() raises.
ParseTimestamp(mp4_path) ==
    LET n == Len(mp4_path) IN
    IF n < 3 THEN [ok |-> FALSE, error |-> "IndexError", timestamp |-> NoTimestamp]
    ELSE
    CHOOSE result \in
        { IF /\ year.ok /\ month.ok /\ day.ok /\ hour.ok /\ min.ok
             /\ DatetimeOK(year.val, month.val, day.val, hour.val, min.val)
          THEN [ok |-> TRUE, error |-> "none",
                timestamp |-> [year |-> year.val, month |-> month.val,
                               day |-> day.val, hour |-> hour.val,
                               minute |-> min.val]]
          ELSE [ok |-> FALSE, error |-> "ValueError", timestamp |-> NoTimestamp] :
          year  \in {PyInt(Slice(mp4_path[n - 2], 0, 4))},
          month \in {PyInt(Slice(mp4_path[n - 2], 4, 6))},
          day   \in {PyInt(Slice(mp4_path[n - 2], 6, 8))},
          hour  \in {PyInt(mp4_path[n - 1])},
          min   \in {PyInt(Slice(mp4_path[n], 0,
                                 Len(mp4_path[n]) - Len(DotMp4)))} } : TRUE

\* Recording(path, timestamp)
Recording(path, timestamp) == [path |-> path, timestamp |-> timestamp]

\* An unstable sort: a recording goes before the recordings of its timestamp.
InsertSorted_Unstable(rs, r) ==
    LET before == {i \in 1..Len(rs) : TsLeq(r.timestamp, rs[i].timestamp)}
        k == IF before = {} THEN Len(rs) + 1
             ELSE CHOOSE i \in before : \A j \in before : i <= j
    IN  SubSeq(rs, 1, k - 1) \o <<r>> \o SubSeq(rs, k, Len(rs))

\* sorted(recordings, key=lambda r: r.timestamp): a stable sort, so a
\* recording goes after every recording whose timestamp is not greater.
InsertSorted(rs, r) ==
    LET before == {i \in 1..Len(rs) : ~TsLeq(rs[i].timestamp, r.timestamp)}
        k == IF before = {} THEN Len(rs) + 1
             ELSE CHOOSE i \in before : \A j \in before : i <= j
    IN  SubSeq(rs, 1, k - 1) \o <<r>> \o SubSeq(rs, k, Len(rs))

RECURSIVE Sorted(_)
Sorted(rs) ==
    IF rs = <<>> THEN <<>>
    ELSE CHOOSE out \in {InsertSorted(prefix, rs[Len(rs)]) :
                             prefix \in {Sorted(SubSeq(rs, 1, Len(rs) - 1))}} : TRUE

\* ------------------------------------------------------------ render_group
\* The earlier naming: the start timestamp only.
SpanName_StartOnly(recordings) == Strftime(recordings[1].timestamp)

SpanName(recordings) ==
    Strftime(recordings[1].timestamp) \o <<"_", "t", "o", "_">>
        \o Strftime(recordings[Len(recordings)].timestamp)

\* output_name, the file's name in the output directory
OutputName(recordings) == SpanName(recordings) \o <<".", "m", "k", "v">>

\* A slip: ffmpeg is given the final name to write to.
TmpOutputName_IsOutput(recordings) == OutputName(recordings)

\* tmp_output_name
TmpOutputName(recordings) ==
    SpanName(recordings) \o <<".", "t", "m", "p", ".", "m", "k", "v">>

\* A slip in line 33: the paths as found, not resolved.
ManifestLines_Relative(recordings) ==
    [i \in 1..Len(recordings) |-> recordings[i].path]

\* The lines of the concat manifest: file '<absolute path>', in group order.
ManifestLines(recordings) ==
    [i \in 1..Len(recordings) |-> Resolve(recordings[i].path)]

\* ------------------------------------------------------------------- state
VARIABLES
    tree,   \* the ??.mp4 paths under record_dir, in the order rglob yields them
    files,  \* the output directory: file name -> [ino, blocks, sealed]
    runs,   \* executions of the program started so far
    proc    \* per process: position, locals of combine() and render_group(),
            \* its manifest, its ffmpeg child, and what it has done so far

vars == <<tree, files, runs, proc>>

Ended == {"done", "failed", "killed"}

NoTool == [state |-> "none", fd |-> 0, pos |-> 0]
NoManifest == [exists |-> FALSE, lines |-> <<>>]

InitProc ==
    [pc                 |-> "idle",
     prev               |-> "none",     \* how this process's previous run ended
     mp4_paths          |-> <<>>,       \* what is left of the rglob iterator
     recordings         |-> <<>>,
     idx                |-> 0,          \* position of the loop over recordings[1:]
     grouped_recordings |-> <<>>,
     manifest           |-> NoManifest, \* input_tmpfile
     tool               |-> NoTool,     \* the ffmpeg child of subprocess.run
     error              |-> "none",     \* the exception that ended the run
     rendered           |-> <<>>,       \* the groups passed to render_group
     invoked            |-> <<>>,       \* output names ffmpeg was started for
     exits              |-> <<>>,       \* exit statuses subprocess.run has seen
     moved              |-> <<>>]       \* output names shutil.move produced

Init ==
    /\ tree \in Orders(Universe, MaxFrags)
    /\ files = <<>>
    /\ runs = 0
    /\ proc = [p \in Procs |-> InitProc]

\* The file f with name n added to (or replaced in) directory d.
WithFile(d, n, f) == [m \in DOMAIN d \cup {n} |-> IF m = n THEN f ELSE d[m]]

\* Directory d without the name n.
WithoutFile(d, n) == [m \in DOMAIN d \ {n} |-> d[m]]

\* The inode number a newly created file gets: one no name and no open
\* descriptor refers to.
FreshIno ==
    LET used == {files[n].ino : n \in DOMAIN files}
                    \cup {proc[p].tool.fd : p \in Procs}
    IN  CHOOSE i \in 1..(Cardinality(used) + 1) : i \notin used

\* A slip in line 54: a copy, which leaves the source in place.
Rename_Copies(d, src, dst) == WithFile(d, dst, d[src])

\* os.rename(src, dst) within directory d: dst is replaced, src is gone.
Rename(d, src, dst) == WithoutFile(WithFile(d, dst, d[src]), src)

\* A file ffmpeg wrote to the end and closed with exit status 0.
Complete(f) == f.sealed /\ f.blocks = 1..ToolBlocks

\* ----------------------------------------------------------------- combine
\* combine(), lines 58-68: ffmpeg is installed, record_dir is a directory and
\* output_dir exists or is created; rglob starts.
Start(p) ==
    /\ proc[p].pc \in Ended \cup {"idle"}
    /\ runs < MaxRuns
    /\ runs' = runs + 1
    /\ proc' = [proc EXCEPT ![p] =
                 [InitProc EXCEPT !.pc = "parse",
                                  !.prev = IF proc[p].pc = "idle" THEN "none"
                                           ELSE proc[p].pc,
                                  !.mp4_paths = tree]]
    /\ UNCHANGED <<tree, files>>

\* A try/except around the loop body: a path that does not parse is skipped.
ParseOne_SkipsBad(p) ==
    /\ proc[p].pc = "parse"
    /\ proc[p].mp4_paths /= <<>>
    /\ \E mp4_path \in {Head(proc[p].mp4_paths)} :
       \E parsed \in {ParseTimestamp(mp4_path)} :
           proc' = [proc EXCEPT ![p] =
             IF parsed.ok
             THEN [@ EXCEPT !.mp4_paths = Tail(@),
                            !.recordings =
                                Append(@, Recording(mp4_path, parsed.timestamp))]
             ELSE [@ EXCEPT !.mp4_paths = Tail(@)]]
    /\ UNCHANGED <<tree, files, runs>>

\* One iteration of "for mp4_path in mp4_paths" (lines 72-79).
ParseOne(p) ==
    /\ proc[p].pc = "parse"
    /\ proc[p].mp4_paths /= <<>>
    /\ \E mp4_path \in {Head(proc[p].mp4_paths)} :
       \E parsed \in {ParseTimestamp(mp4_path)} :
           proc' = [proc EXCEPT ![p] =
             IF parsed.ok
             THEN [@ EXCEPT !.mp4_paths = Tail(@),
                            !.recordings =
                                Append(@, Recording(mp4_path, parsed.timestamp))]
             ELSE [@ EXCEPT !.pc = "failed", !.error = parsed.error]]
    /\ UNCHANGED <<tree, files, runs>>

\* Lines 83-84 left out: recordings[0] raises IndexError on an empty list.
SortRecordings_NoEmptyCheck(p) ==
    /\ proc[p].pc = "parse"
    /\ proc[p].mp4_paths = <<>>
    /\ LET sorted == Sorted(proc[p].recordings)
       IN  proc' = [proc EXCEPT ![p] =
             IF Len(sorted) = 0
             THEN [@ EXCEPT !.recordings = sorted,
                            !.pc = "failed", !.error = "IndexError"]
             ELSE [@ EXCEPT !.recordings = sorted,
                            !.grouped_recordings = <<sorted[1]>>,
                            !.idx = 2,
                            !.pc = "loop"]]
    /\ UNCHANGED <<tree, files, runs>>

\* Lines 80-85: sort, return when there is nothing, else open the first group.
SortRecordings(p) ==
    /\ proc[p].pc = "parse"
    /\ proc[p].mp4_paths = <<>>
    /\ LET sorted == Sorted(proc[p].recordings)
       IN  proc' = [proc EXCEPT ![p] =
             IF Len(sorted) = 0
             THEN [@ EXCEPT !.recordings = sorted, !.pc = "done"]
             ELSE [@ EXCEPT !.recordings = sorted,
                            !.grouped_recordings = <<sorted[1]>>,
                            !.idx = 2,
                            !.pc = "loop"]]
    /\ UNCHANGED <<tree, files, runs>>

\* The call render_group(grouped_recordings, output_dir).
CallRenderGroup(P) ==
    [P EXCEPT !.pc = "render_group",
              !.rendered = Append(@, P.grouped_recordings)]

\* A slip in line 95: the closed group is kept and the recording added to it.
ReturnFromRenderGroup_KeepsGroup(P) ==
    IF P.idx <= Len(P.recordings)
    THEN [P EXCEPT !.grouped_recordings = Append(@, P.recordings[P.idx]),
                   !.idx = @ + 1,
                   !.pc = "loop"]
    ELSE [P EXCEPT !.pc = "done"]

\* The return of render_group to combine(): line 95 and the next iteration
\* for a call made in the loop, the end of combine() for the call of line 96.
ReturnFromRenderGroup(P) ==
    IF P.idx <= Len(P.recordings)
    THEN [P EXCEPT !.grouped_recordings = <<P.recordings[P.idx]>>,
                   !.idx = @ + 1,
                   !.pc = "loop"]
    ELSE [P EXCEPT !.pc = "done"]

\* A slip in line 88: the gap is taken to the first recording of the group.
GapToGroup_First(grouped_recordings, recording) ==
    Timedelta(recording.timestamp, grouped_recordings[1].timestamp)

\* delta = recording.timestamp - grouped_recordings[-1].timestamp
GapToGroup(grouped_recordings, recording) ==
    Timedelta(recording.timestamp,
              grouped_recordings[Len(grouped_recordings)].timestamp)

\* One iteration of "for recording in recordings[1:]" (lines 87-94).
GroupNext(p) ==
    /\ proc[p].pc = "loop"
    /\ proc[p].idx <= Len(proc[p].recordings)
    /\ LET P         == proc[p]
           recording == P.recordings[P.idx]
           delta     == GapToGroup(P.grouped_recordings, recording)
       IN  proc' = [proc EXCEPT ![p] =
             IF BelowThreshold(delta)
             THEN [P EXCEPT !.grouped_recordings = Append(@, recording),
                            !.idx = @ + 1]
             ELSE CallRenderGroup(P)]
    /\ UNCHANGED <<tree, files, runs>>

\* Line 96 left out: the group still open when the loop ends is dropped.
RenderLast_Skips(p) ==
    /\ proc[p].pc = "loop"
    /\ proc[p].idx > Len(proc[p].recordings)
    /\ proc' = [proc EXCEPT ![p].pc = "done"]
    /\ UNCHANGED <<tree, files, runs>>

\* Line 96: the loop is over, the last group is rendered.
RenderLast(p) ==
    /\ proc[p].pc = "loop"
    /\ proc[p].idx > Len(proc[p].recordings)
    /\ proc' = [proc EXCEPT ![p] = CallRenderGroup(@)]
    /\ UNCHANGED <<tree, files, runs>>

\* ------------------------------------------------------------ render_group
\* A slip in line 29: the temporary name is looked for.
OutputExists_Tmp(recordings) == TmpOutputName(recordings) \in DOMAIN files

\* output_path.exists()
OutputExists(recordings) == OutputName(recordings) \in DOMAIN files

\* A shortcut: a temporary output found in the directory is taken for done
\* and moved into place.
CheckExists_PromotesStale(p) ==
    /\ proc[p].pc = "render_group"
    /\ proc' = [proc EXCEPT ![p] =
         IF OutputExists(@.grouped_recordings)
         THEN ReturnFromRenderGroup(@)
         ELSE IF TmpOutputName(@.grouped_recordings) \in DOMAIN files
         THEN [@ EXCEPT !.pc = "move"]
         ELSE [@ EXCEPT !.pc = "manifest"]]
    /\ UNCHANGED <<tree, files, runs>>

\* Lines 20-30: the names, and the return when the output exists.
CheckExists(p) ==
    /\ proc[p].pc = "render_group"
    /\ proc' = [proc EXCEPT ![p] =
         IF OutputExists(@.grouped_recordings)
         THEN ReturnFromRenderGroup(@)
         ELSE [@ EXCEPT !.pc = "manifest"]]
    /\ UNCHANGED <<tree, files, runs>>

\* Lines 33-36: the manifest is written to a NamedTemporaryFile.
WriteManifest(p) ==
    /\ proc[p].pc = "manifest"
    /\ proc' = [proc EXCEPT ![p] =
         [@ EXCEPT !.manifest = [exists |-> TRUE,
                                 lines  |-> ManifestLines(
                                              proc[p].grouped_recordings)],
                   !.pc = "spawn"]]
    /\ UNCHANGED <<tree, files, runs>>

\* Line 37: subprocess.run starts ffmpeg and waits for it.
SpawnTool(p) ==
    /\ proc[p].pc = "spawn"
    /\ proc' = [proc EXCEPT ![p] =
         [@ EXCEPT !.tool = [state |-> "running", fd |-> 0, pos |-> 0],
                   !.invoked = Append(@, OutputName(proc[p].grouped_recordings)),
                   !.pc = "wait"]]
    /\ UNCHANGED <<tree, files, runs>>

\* ffmpeg -y opens tmp_output_path: the file is created, or truncated in
\* place when the name exists (lines 48-49).
ToolOpenOutput(p) ==
    /\ proc[p].tool.state = "running"
    /\ proc[p].tool.fd = 0
    /\ LET tmp == TmpOutputName(proc[p].grouped_recordings)
           ino == IF tmp \in DOMAIN files THEN files[tmp].ino ELSE FreshIno
       IN  /\ files' = WithFile(files, tmp,
                          [ino |-> ino, blocks |-> {}, sealed |-> FALSE])
           /\ proc' = [proc EXCEPT ![p].tool.fd = ino]
    /\ UNCHANGED <<tree, runs>>

\* ffmpeg writes its next block to the file it has open, whatever name that
\* file has by now.
ToolWrite(p) ==
    /\ proc[p].tool.state = "running"
    /\ proc[p].tool.fd /= 0
    /\ proc[p].tool.pos < ToolBlocks
    /\ files' = [n \in DOMAIN files |->
                   IF files[n].ino = proc[p].tool.fd
                   THEN [files[n] EXCEPT !.blocks = @ \cup {proc[p].tool.pos + 1}]
                   ELSE files[n]]
    /\ proc' = [proc EXCEPT ![p].tool.pos = @ + 1]
    /\ UNCHANGED <<tree, runs>>

\* ffmpeg has written everything and exits with status 0.
ToolExitZero(p) ==
    /\ proc[p].tool.state = "running"
    /\ proc[p].tool.fd /= 0
    /\ proc[p].tool.pos = ToolBlocks
    /\ files' = [n \in DOMAIN files |->
                   IF files[n].ino = proc[p].tool.fd
                   THEN [files[n] EXCEPT !.sealed = TRUE]
                   ELSE files[n]]
    /\ proc' = [proc EXCEPT ![p].tool.state = "exit0"]
    /\ UNCHANGED <<tree, runs>>

\* ffmpeg fails, before it opens its output or after any of its writes, and
\* exits with a non-zero status; what it wrote stays.
ToolExitNonZero(p) ==
    /\ proc[p].tool.state = "running"
    /\ proc' = [proc EXCEPT ![p].tool.state = "exit1"]
    /\ UNCHANGED <<tree, files, runs>>

\* The manifest made with delete=False and removed after a successful
\* subprocess.run only.
AfterTool_LeaksManifest(P) ==
    LET Q == [P EXCEPT !.tool = NoTool,
                       !.exits = Append(@, IF P.tool.state = "exit0" THEN 0 ELSE 1)]
    IN  IF P.tool.state = "exit0"
        THEN [Q EXCEPT !.manifest = NoManifest, !.pc = "move"]
        ELSE [Q EXCEPT !.pc = "failed", !.error = "CalledProcessError"]

\* check=False: the exit status is ignored.
AfterTool_Unchecked(P) ==
    [P EXCEPT !.manifest = NoManifest,
              !.tool = NoTool,
              !.exits = Append(@, IF P.tool.state = "exit0" THEN 0 ELSE 1),
              !.pc = "move"]

\* check=True: a non-zero exit status raises CalledProcessError, which
\* nothing catches; the manifest is deleted on both ways out of the with block.
AfterTool(P) ==
    LET Q == [P EXCEPT !.manifest = NoManifest,
                       !.tool = NoTool,
                       !.exits = Append(@, IF P.tool.state = "exit0" THEN 0 ELSE 1)]
    IN  IF P.tool.state = "exit0"
        THEN [Q EXCEPT !.pc = "move"]
        ELSE [Q EXCEPT !.pc = "failed", !.error = "CalledProcessError"]

\* subprocess.run returns or raises CalledProcessError (check=True); either
\* way the with block ends and input_tmpfile is deleted (lines 34-52).
ToolReturned(p) ==
    /\ proc[p].pc = "wait"
    /\ proc[p].tool.state \in {"exit0", "exit1"}
    /\ proc' = [proc EXCEPT ![p] =
         AfterTool(@)]
    /\ UNCHANGED <<tree, files, runs>>

\* Line 54: shutil.move(tmp_output_path, output_path), a rename within the
\* output directory; FileNotFoundError when the temporary name is gone.
MoveOutput(p) ==
    /\ proc[p].pc = "move"
    /\ LET tmp == TmpOutputName(proc[p].grouped_recordings)
           out == OutputName(proc[p].grouped_recordings)
       IN  IF tmp \in DOMAIN files
           THEN /\ files' = Rename(files, tmp, out)
                /\ proc' = [proc EXCEPT ![p] =
                     ReturnFromRenderGroup([@ EXCEPT !.moved = Append(@, out)])]
           ELSE /\ files' = files
                /\ proc' = [proc EXCEPT ![p] =
                     [@ EXCEPT !.pc = "failed", !.error = "FileNotFoundError"]]
    /\ UNCHANGED <<tree, runs>>

\* The process is killed, and its ffmpeg child with it: its memory is gone,
\* and nothing is cleaned up (the manifest and whatever ffmpeg wrote stay).
Kill(p) ==
    /\ proc[p].pc \notin Ended \cup {"idle"}
    /\ proc' = [proc EXCEPT ![p] =
         [InitProc EXCEPT !.pc = "killed",
                          !.prev = proc[p].prev,
                          !.manifest = proc[p].manifest]]
    /\ UNCHANGED <<tree, files, runs>>

Run(p) ==
    \/ Start(p)
    \/ ParseOne(p)
    \/ SortRecordings(p)
    \/ GroupNext(p)
    \/ RenderLast(p)
    \/ CheckExists(p)
    \/ WriteManifest(p)
    \/ SpawnTool(p)
    \/ ToolOpenOutput(p)
    \/ ToolWrite(p)
    \/ ToolExitZero(p)
    \/ ToolExitNonZero(p)
    \/ ToolReturned(p)
    \/ MoveOutput(p)
    \/ Kill(p)

\* Runs one after the other: the program is started again when it has ended.
Next == Run(1)

Spec == Init /\ [][Next]_vars

\* The steps of a run that nothing interrupts and in which ffmpeg succeeds.
CleanRun(p) ==
    \/ ParseOne(p)
    \/ SortRecordings(p)
    \/ GroupNext(p)
    \/ RenderLast(p)
    \/ CheckExists(p)
    \/ WriteManifest(p)
    \/ SpawnTool(p)
    \/ ToolOpenOutput(p)
    \/ ToolWrite(p)
    \/ ToolExitZero(p)
    \/ ToolReturned(p)
    \/ MoveOutput(p)

\* Runs one after the other, the last of them uninterrupted: a process that
\* is not killed goes on, and so does its ffmpeg.
NextResume ==
    \/ runs < MaxRuns /\ Run(1)
    \/ runs = MaxRuns /\ CleanRun(1)

\* Trees of one or two sessions whose paths all have timestamps.
InitResume ==
    /\ tree \in Orders({F1000, F1001, F1002, F1001b}, MaxFrags)
    /\ files = <<>>
    /\ runs = 0
    /\ proc = [p \in Procs |-> InitProc]

SpecResume ==
    InitResume /\ [][NextResume]_vars /\ WF_vars(runs = MaxRuns /\ CleanRun(1))

\* Two processes on the same tree and output directory at the same time.
InitConc ==
    /\ tree \in {<<F1000>>, <<F1000, F1001>>, <<F1002, F1000>>}
    /\ files = <<>>
    /\ runs = 0
    /\ proc = [p \in Procs |-> InitProc]

NextConc == \E p \in Procs : Run(p)

SpecConc == InitConc /\ [][NextConc]_vars

\* Trees of files around folder boundaries.
InitRollover ==
    /\ tree \in Orders(RolloverFrags, MaxFrags)
    /\ files = <<>>
    /\ runs = 0
    /\ proc = [p \in Procs |-> InitProc]

SpecRollover == InitRollover /\ [][Next]_vars

\* The concrete scenario, its five files in any order.
InitScenario ==
    /\ tree \in {t \in Orders(ScenarioFrags, Cardinality(ScenarioFrags)) :
                    Len(t) = Cardinality(ScenarioFrags)}
    /\ files = <<>>
    /\ runs = 0
    /\ proc = [p \in Procs |-> InitProc]

SpecScenario == InitScenario /\ [][Next]_vars

\* ================================================================== claims
\* The paths of a group, in its order.
PathsOf(group) == [i \in 1..Len(group) |-> group[i].path]

\* t2 - t1 in seconds.
GapSeconds(t2, t1) ==
    (Ordinal(t2) - Ordinal(t1)) * 86400
        + (t2.hour - t1.hour) * 3600 + (t2.minute - t1.minute) * 60

\* The places (group, position) of the groups a process passed to render_group.
Places(groups) ==
    {pl \in (1..Len(groups)) \X (1..MaxFrags + 2) : pl[2] <= Len(groups[pl[1]])}

\* C1: when a run ends with every render having succeeded, the groups passed
\* to render_group partition the input: no group is empty, every file of the
\* tree is at exactly one place of exactly one group, and the groups hold
\* nothing else.
C1_GroupsPartitionInput ==
    \A p \in Procs :
        proc[p].pc = "done" =>
            LET groups == proc[p].rendered IN
            /\ \A k \in 1..Len(groups) : groups[k] /= <<>>
            /\ \A i \in 1..Len(tree) :
                   Cardinality({pl \in Places(groups) :
                                   groups[pl[1]][pl[2]].path = tree[i]}) = 1
            /\ \A pl \in Places(groups) :
                   \E i \in 1..Len(tree) : tree[i] = groups[pl[1]][pl[2]].path

\* A finished run of three files that made more than one group.
C1_Witness ==
    /\ proc[1].pc = "done"
    /\ Len(tree) = 3
    /\ Len(proc[1].rendered) = 2

\* C2: in every group passed to render_group neighbours are less than 90
\* seconds apart, and from the last recording of a group to the first of the
\* next group there are at least 90 seconds.
C2_GapsInsideAndBetweenGroups ==
    \A p \in Procs :
        LET groups == proc[p].rendered IN
        /\ \A k \in 1..Len(groups) : \A j \in 1..(Len(groups[k]) - 1) :
               GapSeconds(groups[k][j + 1].timestamp, groups[k][j].timestamp) < 90
        /\ \A k \in 1..(Len(groups) - 1) :
               GapSeconds(groups[k + 1][1].timestamp,
                          groups[k][Len(groups[k])].timestamp) >= 90

\* A group of two recordings a minute apart has been rendered, and a second
\* group after it.
C2_Witness ==
    /\ Len(proc[1].rendered) = 2
    /\ Len(proc[1].rendered[1]) = 2
    /\ GapSeconds(proc[1].rendered[1][2].timestamp,
                  proc[1].rendered[1][1].timestamp) = 60

\* s ends with suffix.
EndsWith(s, suffix) ==
    /\ Len(s) >= Len(suffix)
    /\ SubSeq(s, Len(s) - Len(suffix) + 1, Len(s)) = suffix

IsTmpName(n) == EndsWith(n, <<".", "t", "m", "p", ".", "m", "k", "v">>)

IsFinalName(n) == EndsWith(n, <<".", "m", "k", "v">>) /\ ~IsTmpName(n)

\* The output names of the groups a process passed to render_group.
RenderedNames(p) ==
    [k \in 1..Len(proc[p].rendered) |-> OutputName(proc[p].rendered[k])]

\* C3: when a run ends with every ffmpeg having exited zero, the output
\* directory holds, for each session, one file under the session's
\* <start>_to_<end>.mkv name and nothing else (no *.tmp.mkv), distinct
\* sessions have distinct files, and the run produced exactly one file for
\* each session it did not skip (each session it started ffmpeg for).
C3_OneOutputPerSession ==
    \A p \in Procs :
        proc[p].pc = "done" =>
            LET names == RenderedNames(p) IN
            /\ \A k \in 1..Len(names) : names[k] \in DOMAIN files
            /\ \A k1, k2 \in 1..Len(names) : names[k1] = names[k2] => k1 = k2
            /\ DOMAIN files = {names[k] : k \in 1..Len(names)}
            /\ \A n \in DOMAIN files : IsFinalName(n) /\ ~IsTmpName(n)
            /\ proc[p].moved = proc[p].invoked
            /\ \A i, j \in 1..Len(proc[p].moved) :
                   proc[p].moved[i] = proc[p].moved[j] => i = j
            /\ \A i \in 1..Len(proc[p].moved) :
                   \E k \in 1..Len(names) : names[k] = proc[p].moved[i]

\* A run that rendered two sessions has ended.
C3_Witness ==
    /\ proc[1].pc = "done"
    /\ Len(proc[1].moved) = 2
    /\ Cardinality(DOMAIN files) = 2

\* C4: render_group for a session whose output exists returns to combine()
\* without starting ffmpeg, without an error and without touching a file; and
\* a run that follows a run which ended successfully starts no ffmpeg and
\* changes no file.
C4_Idempotent ==
    [][\A p \in Procs :
          /\ ( /\ proc[p].pc = "render_group"
               /\ OutputName(proc[p].grouped_recordings) \in DOMAIN files
               /\ proc'[p] /= proc[p] )
             => /\ files' = files
                /\ proc'[p].invoked = proc[p].invoked
                /\ proc'[p].error = "none"
                /\ proc'[p].pc \in {"loop", "done", "killed"}
          /\ (proc[p].prev = "done" /\ proc'[p].prev = "done")
             => /\ files' = files
                /\ proc'[p].invoked = <<>>
                /\ proc'[p].error = "none"]_vars

\* The second run has ended after the first rendered two sessions.
C4_Witness ==
    /\ proc[1].prev = "done"
    /\ proc[1].pc = "done"
    /\ Len(proc[1].rendered) = 2
    /\ proc[1].invoked = <<>>
    /\ Cardinality(DOMAIN files) = 2

\* C5: when ffmpeg exits non-zero for a session and render_group has ended
\* (CalledProcessError), there is no file at the session's final name and
\* no temporary file in the output directory.
C5_NothingLeftAfterToolFailure ==
    \A p \in Procs :
        (proc[p].pc = "failed" /\ proc[p].error = "CalledProcessError") =>
            /\ OutputName(proc[p].grouped_recordings) \notin DOMAIN files
            /\ \A n \in DOMAIN files : ~IsTmpName(n)

\* C6: whatever happens to a run (kill at any point, tool failure), a file at
\* a final output name is the complete output of an ffmpeg that exited zero.
C6_FinalNeverPartial ==
    \A n \in DOMAIN files : IsFinalName(n) => Complete(files[n])

\* The run was killed while ffmpeg was writing the second session: the first
\* session's output is there, and a partly written temporary file.
C6_Witness ==
    /\ proc[1].pc = "killed"
    /\ \E n \in DOMAIN files : IsFinalName(n)
    /\ \E n \in DOMAIN files : IsTmpName(n) /\ files[n].blocks = {1}

\* C7: with two runs at the same time on the same tree and output directory,
\* the file at the output name of a session either process is rendering or
\* has rendered is never partly written.
C7_ConcurrentRunsNeverExposePartial ==
    \A p \in Procs : \A k \in 1..Len(proc[p].rendered) :
        OutputName(proc[p].rendered[k]) \in DOMAIN files
            => Complete(files[OutputName(proc[p].rendered[k])])

\* C8: once ffmpeg has exited non-zero in a run, that was the run's last
\* ffmpeg, the run has failed with the session being the last one passed to
\* render_group, and the outputs of the sessions before it are there, complete.
C8_ToolFailureAbortsRun ==
    \A p \in Procs : \A i \in 1..Len(proc[p].exits) :
        proc[p].exits[i] /= 0 =>
            /\ i = Len(proc[p].exits)
            /\ Len(proc[p].invoked) = i
            /\ proc[p].pc = "failed"
            /\ proc[p].error = "CalledProcessError"
            /\ proc[p].invoked[i] = OutputName(proc[p].rendered[Len(proc[p].rendered)])
            /\ \A k \in 1..(Len(proc[p].rendered) - 1) :
                   /\ OutputName(proc[p].rendered[k]) \in DOMAIN files
                   /\ Complete(files[OutputName(proc[p].rendered[k])])

\* ffmpeg failed for the second session of a run whose first session was
\* rendered, with a recording left for a third session.
C8_Witness ==
    /\ proc[1].pc = "failed"
    /\ proc[1].exits = <<0, 1>>
    /\ Len(proc[1].moved) = 1
    /\ proc[1].idx <= Len(proc[1].recordings)

AllDigits(s) == \A i \in 1..Len(s) : IsDigit(s[i])

\* The date folder starts with eight digits, the hour folder and the stem are
\* two digits each.
WellFormedPath(path) ==
    /\ Len(path) >= 3
    /\ Len(path[Len(path) - 2]) >= 8
    /\ AllDigits(SubSeq(path[Len(path) - 2], 1, 8))
    /\ Len(path[Len(path) - 1]) = 2 /\ AllDigits(path[Len(path) - 1])
    /\ Len(path[Len(path)]) = 2 + Len(DotMp4)
    /\ AllDigits(SubSeq(path[Len(path)], 1, 2))

\* C9: a discovered file whose date, hour or minute segment does not have the
\* expected width and digits is never given a timestamp, and a run does not
\* get past the parsing of a tree that holds such a file.
C9_MalformedPathIsFatal ==
    \A p \in Procs :
        /\ \A i \in 1..Len(proc[p].recordings) :
               WellFormedPath(proc[p].recordings[i].path)
        /\ proc[p].pc \notin {"idle", "parse", "failed", "killed"} =>
               \A i \in 1..Len(tree) : WellFormedPath(tree[i])

Name_1000_to_1002 ==
    <<"2", "0", "2", "4", "0", "1", "0", "1", "_", "1", "0", "0", "0",
      "_", "t", "o", "_",
      "2", "0", "2", "4", "0", "1", "0", "1", "_", "1", "0", "0", "2",
      ".", "m", "k", "v">>

Name_1005_to_1006 ==
    <<"2", "0", "2", "4", "0", "1", "0", "1", "_", "1", "0", "0", "5",
      "_", "t", "o", "_",
      "2", "0", "2", "4", "0", "1", "0", "1", "_", "1", "0", "0", "6",
      ".", "m", "k", "v">>

\* C10: the files of 10:00, 10:01, 10:02, 10:05 and 10:06, found in any
\* order, make two sessions, {10:00, 10:01, 10:02} then {10:05, 10:06}, with
\* the outputs 20240101_1000_to_20240101_1002.mkv and
\* 20240101_1005_to_20240101_1006.mkv, rendered in that order.
C10_ScenarioTwoSessions ==
    \A p \in Procs :
        proc[p].pc = "done" =>
            /\ [k \in 1..Len(proc[p].rendered) |-> PathsOf(proc[p].rendered[k])]
                   = <<<<F1000, F1001, F1002>>, <<F1005, F1006>>>>
            /\ RenderedNames(p) = <<Name_1000_to_1002, Name_1005_to_1006>>
            /\ DOMAIN files = {Name_1000_to_1002, Name_1005_to_1006}
            /\ proc[p].prev = "none" =>
                   proc[p].invoked = <<Name_1000_to_1002, Name_1005_to_1006>>

\* The first run has ended on a tree found in a shuffled order.
C10_Witness ==
    /\ tree = <<F1006, F1002, F1000, F1005, F1001>>
    /\ proc[1].pc = "done"
    /\ proc[1].prev = "none"
    /\ Len(proc[1].moved) = 2

\* C11: with no fragment file under the recordings directory a run ends
\* successfully right after the sort: no group, no ffmpeg, no output file,
\* no error.
C11_EmptyTreeDoesNothing ==
    tree = <<>> =>
        /\ files = <<>>
        /\ \A p \in Procs :
               /\ proc[p].pc \in {"idle", "parse", "done", "killed"}
               /\ proc[p].error = "none"
               /\ proc[p].rendered = <<>>
               /\ proc[p].invoked = <<>>

\* A run on the empty tree has ended.
C11_Witness ==
    /\ tree = <<>>
    /\ proc[1].pc = "done"
    /\ files = <<>>

\* C12: a run that finds exactly one fragment and ends has passed one group
\* of one recording to render_group; the output name is <t>_to_<t>.mkv with
\* the same timestamp twice (for a well-formed path: the date, hour and minute
\* characters of the path); ffmpeg was started at most once, and exactly once
\* in the first run on the output directory.
C12_SingleFragmentOneSession ==
    \A p \in Procs :
        (Len(tree) = 1 /\ proc[p].pc = "done") =>
            LET name  == OutputName(proc[p].rendered[1])
                start == SubSeq(name, 1, 13)
                path  == tree[1]
            IN  /\ Len(proc[p].rendered) = 1
                /\ PathsOf(proc[p].rendered[1]) = <<path>>
                /\ name = start \o <<"_", "t", "o", "_">> \o start
                              \o <<".", "m", "k", "v">>
                /\ WellFormedPath(path) =>
                       start = SubSeq(path[2], 1, 8) \o <<"_">> \o path[3]
                                   \o SubSeq(path[4], 1, 2)
                /\ DOMAIN files = {name}
                /\ Len(proc[p].invoked) <= 1
                /\ proc[p].moved = proc[p].invoked
                /\ proc[p].prev = "none" => proc[p].invoked = <<name>>

\* The first run on a tree of one file has ended.
C12_Witness ==
    /\ tree = <<F1001>>
    /\ proc[1].pc = "done"
    /\ proc[1].prev = "none"
    /\ Len(proc[1].exits) = 1

RECURSIVE Flatten(_)
Flatten(groups) ==
    IF groups = <<>> THEN <<>> ELSE Head(groups) \o Flatten(Tail(groups))

\* t1 is strictly before t2.
TsBefore(t1, t2) == TsLeq(t1, t2) /\ t1 /= t2

\* C13: render_group is called for one session after the other in ascending
\* time (the first timestamp of a call is after the last of the call before);
\* while a call is in progress its group is the run of recordings that ends
\* right before the loop position, and either the input is exhausted or the
\* recording at the loop position is at least 90 s after the group's last;
\* and when a run ends successfully the groups, in call order, are the sorted
\* recordings: every session once, the last one included.
C13_RenderOncePerSessionInOrder ==
    \A p \in Procs :
        LET P      == proc[p]
            groups == P.rendered
        IN
        /\ \A k \in 1..(Len(groups) - 1) :
               TsBefore(groups[k][Len(groups[k])].timestamp,
                        groups[k + 1][1].timestamp)
        /\ P.pc \in {"render_group", "manifest", "spawn", "wait", "move"} =>
               /\ groups /= <<>>
               /\ groups[Len(groups)] = P.grouped_recordings
               /\ P.grouped_recordings =
                      SubSeq(P.recordings, P.idx - Len(P.grouped_recordings),
                             P.idx - 1)
               /\ \/ P.idx > Len(P.recordings)
                  \/ GapSeconds(P.recordings[P.idx].timestamp,
                                P.recordings[P.idx - 1].timestamp) >= 90
        /\ P.pc = "done" => Flatten(groups) = P.recordings
        /\ P.tool.state = "running" => P.pc = "wait"

\* A run of three sessions has ended.
C13_Witness ==
    /\ proc[1].pc = "done"
    /\ Len(proc[1].rendered) = 3
    /\ Len(proc[1].moved) = 3

\* C14: the sessions of a run have pairwise different output names and
\* pairwise different temporary names, and no temporary name of a session is
\* the output name of a session, also when recordings share a timestamp.
C14_SessionsHaveOwnNames ==
    \A p \in Procs :
        \A outs \in {[k \in DOMAIN proc[p].rendered |->
                         OutputName(proc[p].rendered[k])]} :
        \A tmps \in {[k \in DOMAIN proc[p].rendered |->
                         TmpOutputName(proc[p].rendered[k])]} :
            \A k1, k2 \in DOMAIN outs :
                /\ k1 /= k2 => outs[k1] /= outs[k2] /\ tmps[k1] /= tmps[k2]
                /\ tmps[k1] /= outs[k2]

\* Two sessions were rendered, one of them holding two recordings of the same
\* timestamp.
C14_Witness ==
    /\ Len(proc[1].rendered) = 2
    /\ \E k \in 1..2 :
           /\ Len(proc[1].rendered[k]) = 2
           /\ proc[1].rendered[k][1].timestamp = proc[1].rendered[k][2].timestamp

\* C15: the manifest ffmpeg is given has one line per recording of the group
\* being rendered, in the group's order, which is ascending in time; a line is
\* the recording's path made absolute; no line occurs twice and no line is a
\* recording of another group.
C15_ManifestIsTheSession ==
    \A p \in Procs :
        LET P     == proc[p]
            group == P.grouped_recordings
            lines == P.manifest.lines
        IN
        /\ P.tool.state = "running" => P.manifest.exists
        /\ (P.manifest.exists /\ P.pc \in {"spawn", "wait"}) =>
               /\ Len(lines) = Len(group)
               /\ \A i \in 1..Len(lines) :
                      /\ Head(lines[i]) = <<"/">>
                      /\ Tail(lines[i]) = group[i].path
               /\ \A i, j \in 1..Len(lines) : lines[i] = lines[j] => i = j
               /\ \A i \in 1..(Len(group) - 1) :
                      TsLeq(group[i].timestamp, group[i + 1].timestamp)
               /\ \A k \in 1..(Len(P.rendered) - 1) :
                      \A j \in 1..Len(P.rendered[k]) :
                          \A i \in 1..Len(lines) :
                              Tail(lines[i]) /= P.rendered[k][j].path

\* ffmpeg runs on the manifest of the second session, which has two lines.
C15_Witness ==
    /\ proc[1].tool.state = "running"
    /\ Len(proc[1].rendered) = 2
    /\ Len(proc[1].manifest.lines) = 2

\* The position of a path in the order of discovery.
Discovered(path) == CHOOSE i \in 1..Len(tree) : tree[i] = path

\* C16: recordings of the same timestamp stay in the order they were found
\* in, are rendered in the same group, and do not make a run fail: parsing
\* fails only on a path that has no timestamp.
C16_SortIsStable ==
    \A p \in Procs :
        LET rs == proc[p].recordings IN
        /\ \A i, j \in 1..Len(rs) :
               (i < j /\ rs[i].timestamp = rs[j].timestamp) =>
                   /\ Discovered(rs[i].path) < Discovered(rs[j].path)
                   /\ \A k \in 1..Len(proc[p].rendered) :
                          (\E a \in 1..Len(proc[p].rendered[k]) :
                               proc[p].rendered[k][a] = rs[i])
                          <=> (\E b \in 1..Len(proc[p].rendered[k]) :
                                   proc[p].rendered[k][b] = rs[j])
        /\ proc[p].pc \notin {"idle", "parse", "failed", "killed"} =>
               \A i \in 1..(Len(rs) - 1) : TsLeq(rs[i].timestamp, rs[i + 1].timestamp)
        /\ proc[p].error \in {"ValueError", "IndexError"} =>
               \E i \in 1..Len(tree) : ~ParseTimestamp(tree[i]).ok

\* Two files of the same timestamp, found in the order b, a, were rendered
\* behind an earlier file, in the order b, a.
C16_Witness ==
    /\ tree = <<F1001b, F1001, F1000>>
    /\ proc[1].pc = "done"
    /\ PathsOf(proc[1].recordings) = <<F1000, F1001b, F1001>>
    /\ Len(proc[1].rendered) = 1

\* C18: outside of the with block of render_group the manifest does not
\* exist: it is gone when subprocess.run has returned and when it has raised
\* CalledProcessError (a killed process is the exception).
C18_ManifestRemoved ==
    \A p \in Procs :
        /\ proc[p].pc \notin {"spawn", "wait", "killed"} => ~proc[p].manifest.exists
        /\ proc[p].pc \in {"spawn", "wait"} => proc[p].manifest.exists

\* render_group has ended with CalledProcessError and the manifest is gone.
C18_Witness ==
    /\ proc[1].pc = "failed"
    /\ proc[1].error = "CalledProcessError"
    /\ proc[1].exits = <<1>>
    /\ ~proc[1].manifest.exists

\* The fragments trees are drawn from that the parse loop rejects.
Unparsable == {f \in Universe : ~ParseTimestamp(f).ok}

\* C19: on a tree with a path that has no timestamp no run gets past the
\* parsing: no group is formed or rendered, ffmpeg is never started and the
\* output directory stays as it was, however many paths parsed before it.
C19_ParseBeforeRender ==
    (\E i \in 1..Len(tree) : tree[i] \in Unparsable) =>
        /\ files = <<>>
        /\ \A p \in Procs :
               /\ proc[p].pc \in {"idle", "parse", "failed", "killed"}
               /\ proc[p].grouped_recordings = <<>>
               /\ proc[p].rendered = <<>>
               /\ proc[p].invoked = <<>>
               /\ proc[p].tool = NoTool
               /\ proc[p].pc = "failed" =>
                      /\ proc[p].error = "ValueError"
                      /\ Len(proc[p].recordings) < Len(tree)

\* The run failed on the third path after two recordings that would make two
\* sessions.
C19_Witness ==
    /\ tree = <<F1000, F1002, FBadStem>>
    /\ proc[1].pc = "failed"
    /\ Len(proc[1].recordings) = 2

\* A pair of files one minute apart across a folder boundary, with the name
\* of the output of the two.
RolloverPairs ==
    {[first |-> F2359, second |-> F0000,
      name  |-> Chars20231231 \o <<"_", "2", "3", "5", "9", "_", "t", "o", "_">>
                    \o Chars20240101 \o <<"_", "0", "0", "0", "0", ".", "m", "k", "v">>],
     [first |-> F1059, second |-> F1100,
      name  |-> Chars20240101 \o <<"_", "1", "0", "5", "9", "_", "t", "o", "_">>
                    \o Chars20240101 \o <<"_", "1", "1", "0", "0", ".", "m", "k", "v">>],
     [first |-> FFeb29, second |-> FMar01,
      name  |-> Chars20240229 \o <<"_", "2", "3", "5", "9", "_", "t", "o", "_">>
                    \o Chars20240301 \o <<"_", "0", "0", "0", "0", ".", "m", "k", "v">>]}

\* C20: files at consecutive minutes across an hour folder, a month or a year
\* boundary are neighbours in one group when a run has ended, and the output
\* of a tree that is just such a pair is named from the two different
\* folders: <date>_<HH>59_to_<next date>_<HH+1>00.mkv.
C20_GapAcrossFolders ==
    \A p \in Procs :
        proc[p].pc = "done" =>
            \A pair \in RolloverPairs :
                (\E i, j \in 1..Len(tree) :
                     tree[i] = pair.first /\ tree[j] = pair.second) =>
                    /\ \E k \in 1..Len(proc[p].rendered) :
                           \E a \in 1..(Len(proc[p].rendered[k]) - 1) :
                               /\ proc[p].rendered[k][a].path = pair.first
                               /\ proc[p].rendered[k][a + 1].path = pair.second
                    /\ Len(tree) = 2 =>
                           /\ RenderedNames(p) = <<pair.name>>
                           /\ DOMAIN files = {pair.name}

\* The run on 2023-12-31 23:59 and 2024-01-01 00:00 has ended with one
\* output.
C20_Witness ==
    /\ tree = <<F0000, F2359>>
    /\ proc[1].pc = "done"
    /\ Len(proc[1].moved) = 1

\* Every path of the tree has a timestamp.
TreeParses == \A i \in 1..Len(tree) : ParseTimestamp(tree[i]).ok

\* The run of p has ended with a complete output for every session, the
\* sessions holding every file of the tree.
AllSessionsRendered(p) ==
    /\ proc[p].pc = "done"
    /\ \A i \in 1..Len(tree) :
           \E k \in 1..Len(proc[p].rendered) :
               \E a \in 1..Len(proc[p].rendered[k]) :
                   proc[p].rendered[k][a].path = tree[i]
    /\ \A k \in 1..Len(proc[p].rendered) :
           /\ OutputName(proc[p].rendered[k]) \in DOMAIN files
           /\ Complete(files[OutputName(proc[p].rendered[k])])

\* C17: a run started after a killed or failed run on the same tree, not
\* interrupted itself and with ffmpeg succeeding, ends with a complete output
\* for every session; ffmpeg is never started for a session whose output
\* exists; and a file is moved to a final name only right after an ffmpeg of
\* the same run wrote it and exited zero.
C17_Resumable ==
    /\ ( /\ runs = MaxRuns
         /\ proc[1].prev \in {"killed", "failed"}
         /\ TreeParses )
           ~> AllSessionsRendered(1)
    /\ [][\A p \in Procs :
            /\ Len(proc'[p].invoked) > Len(proc[p].invoked) =>
                   proc'[p].invoked[Len(proc'[p].invoked)] \notin DOMAIN files
            /\ Len(proc'[p].moved) > Len(proc[p].moved) =>
                   /\ Len(proc[p].exits) = Len(proc'[p].moved)
                   /\ proc[p].exits[Len(proc[p].exits)] = 0
                   /\ Complete(files'[proc'[p].moved[Len(proc'[p].moved)]])]_vars

\* After a killed run that had finished one session and left a partly written
\* temporary file, the next run has rendered the other session and ended.
C17_Witness ==
    /\ runs = MaxRuns
    /\ proc[1].prev = "killed"
    /\ proc[1].pc = "done"
    /\ Len(proc[1].rendered) = 2
    /\ Len(proc[1].moved) = 1

====
